---- MODULE Spec2Model ----
(***************************************************************************)
(* TACO (TCP Availability Connection Observer), version 0.0.24.            *)
(* Model of waitForTarget / checkConnection: the connect-retry-cancel loop *)
(* driven by a context (explicit cancel or deadline), a net.Dialer with a  *)
(* per-attempt timeout and a fixed inter-attempt interval.                 *)
(*                                                                         *)
(* Time is a discrete clock `now`.  Statements of the loop take no time;   *)
(* time passes only while the goroutine is suspended, in DialContext or in *)
(* the select.  A timer (time.After, the dialer timeout, the context       *)
(* deadline) fires at the instant it is due.                               *)
(***************************************************************************)
EXTENDS Integers, Sequences, FiniteSets, Bags, TLC

\* ---- bounds of the model ----
MaxInterval == 2
MaxDialTimeout == 2
MaxDeadline == 3
MaxTime == 5
MaxAttempts == 3

\* deadlineAt value of a context without a deadline
NoDeadline == -1

\* error values of DialContext; "aborted" is the error of a dial that was
\* interrupted by the context
DialErrors == {"refused", "timeout", "dns", "aborted"}

\* ctx.Err()
CtxErrors == {"canceled", "deadline"}

\* ---- strings: sequences of one-character strings ----

\* sub occurs in s at position i
OccursAt(s, sub, i) ==
    /\ i >= 1
    /\ i + Len(sub) - 1 <= Len(s)
    /\ \A j \in 1..Len(sub) : s[i + j - 1] = sub[j]

\* strings.Index for a non-empty sub, 1-based; 0 when sub does not occur
Index(s, sub) ==
    IF \E i \in 1..Len(s) : OccursAt(s, sub, i)
    THEN CHOOSE i \in 1..Len(s) :
            /\ OccursAt(s, sub, i)
            /\ \A j \in 1..(i - 1) : ~OccursAt(s, sub, j)
    ELSE 0

\* strings.Contains
Contains(s, sub) == Index(s, sub) # 0

\* strings.SplitN(s, sep, 2): s cut at the first sep, or s alone
SplitN2(s, sep) ==
    IF Index(s, sep) = 0 THEN <<s>>
    ELSE <<SubSeq(s, 1, Index(s, sep) - 1),
           SubSeq(s, Index(s, sep) + Len(sep), Len(s))>>

\* ---- errors ----

\* an error value: the wrapping prefix added by run, the kind of the error
\* and the text it names (the schema of a schema error)
Error(k, d) == [wrap |-> "", kind |-> k, detail |-> d]

NilError == Error("nil", <<>>)

\* run has not returned yet
NotReturned == Error("none", <<>>)

\* fmt.Errorf("<w> error: %w", e)
Wrap(w, e) == [e EXCEPT !.wrap = w]

\* ---- time.ParseDuration, on a clock of whole seconds ----

DigitChars == {"0", "1", "2", "3", "4", "5", "6", "7", "8", "9"}

DigitOrder == <<"0", "1", "2", "3", "4", "5", "6", "7", "8", "9">>

DigitVal(c) == (CHOOSE i \in 1..10 : DigitOrder[i] = c) - 1

\* number of leading characters of s that are in S
LeadWhile(s, S) ==
    IF \E i \in 1..Len(s) : s[i] \notin S
    THEN (CHOOSE i \in 1..Len(s) :
             /\ s[i] \notin S
             /\ \A j \in 1..(i - 1) : s[j] \in S) - 1
    ELSE Len(s)

\* number of leading characters of s that are not in S
LeadUntil(s, S) ==
    IF \E i \in 1..Len(s) : s[i] \in S
    THEN (CHOOSE i \in 1..Len(s) :
             /\ s[i] \in S
             /\ \A j \in 1..(i - 1) : s[j] \notin S) - 1
    ELSE Len(s)

\* leadingInt: the value of a sequence of digits
RECURSIVE DigitsValue(_)
DigitsValue(s) ==
    IF s = <<>> THEN 0
    ELSE DigitsValue(SubSeq(s, 1, Len(s) - 1)) * 10 + DigitVal(s[Len(s)])

\* unitMap, in seconds; 0 for a unit that is not in the map.  The units
\* below one second are finer than the clock and are not modelled.
UnitTicks(u) ==
    IF u = <<"s">> THEN 1
    ELSE IF u = <<"m">> THEN 60
    ELSE IF u = <<"h">> THEN 3600
    ELSE 0

ParseFail == [ok |-> FALSE, d |-> 0]

\* the loop of ParseDuration over the groups <digits><unit>
RECURSIVE ParseGroups(_)
ParseGroups(s) ==
    IF s = <<>> THEN [ok |-> TRUE, d |-> 0]
    ELSE LET n == LeadWhile(s, DigitChars)
             rest == SubSeq(s, n + 1, Len(s))
             u == LeadUntil(rest, DigitChars \cup {"."})
             unit == UnitTicks(SubSeq(rest, 1, u))
             more == ParseGroups(SubSeq(rest, u + 1, Len(rest)))
         IN  IF n = 0 \/ u = 0 \/ unit = 0 \/ ~more.ok THEN ParseFail
             ELSE [ok |-> TRUE,
                   d |-> DigitsValue(SubSeq(s, 1, n)) * unit + more.d]

\* time.ParseDuration: optional sign, "0", or one or more groups
ParseDuration(s) ==
    LET signed == s # <<>> /\ s[1] \in {"-", "+"}
        body == IF signed THEN Tail(s) ELSE s
        r == ParseGroups(body)
    IN  IF body = <<"0">> THEN [ok |-> TRUE, d |-> 0]
        ELSE IF body = <<>> \/ ~r.ok THEN ParseFail
        ELSE [ok |-> TRUE,
              d |-> IF signed /\ s[1] = "-" THEN 0 - r.d ELSE r.d]

\* strconv.ParseBool
ParseBool(s) ==
    IF s \in {"1", "t", "T", "TRUE", "true", "True"}
    THEN [ok |-> TRUE, b |-> TRUE]
    ELSE IF s \in {"0", "f", "F", "FALSE", "false", "False"}
    THEN [ok |-> TRUE, b |-> FALSE]
    ELSE [ok |-> FALSE, b |-> FALSE]

\* ---- Config ----

\* default interval and dial timeout of parseConfig, in seconds
DefaultInterval == 2

DefaultDialTimeout == 1

\* Config{}
ZeroConfig ==
    [TargetName |-> <<>>, TargetAddress |-> <<>>, Interval |-> 0,
     DialTimeout |-> 0, LogAdditionalFields |-> FALSE]

\* variant of parseConfig: a setting that is not set is left at zero
parseConfigZeroDefaults(getenv) ==
    LET i == ParseDuration(getenv.INTERVAL)
        d == ParseDuration(getenv.DIAL_TIMEOUT)
        l == ParseBool(getenv.LOG_ADDITIONAL_FIELDS)
        c == [TargetName |-> getenv.TARGET_NAME,
              TargetAddress |-> getenv.TARGET_ADDRESS,
              Interval |-> IF getenv.INTERVAL # <<>> THEN i.d
                           ELSE 0,
              DialTimeout |-> IF getenv.DIAL_TIMEOUT # <<>> THEN d.d
                              ELSE 0,
              LogAdditionalFields |->
                  IF getenv.LOG_ADDITIONAL_FIELDS # "" THEN l.b ELSE FALSE]
    IN  IF getenv.INTERVAL # <<>> /\ ~i.ok
        THEN [cfg |-> ZeroConfig,
              err |-> Error("invalid INTERVAL", getenv.INTERVAL)]
        ELSE IF getenv.DIAL_TIMEOUT # <<>> /\ ~d.ok
        THEN [cfg |-> ZeroConfig,
              err |-> Error("invalid DIAL_TIMEOUT", getenv.DIAL_TIMEOUT)]
        ELSE IF getenv.LOG_ADDITIONAL_FIELDS # "" /\ ~l.ok
        THEN [cfg |-> ZeroConfig,
              err |-> Error("invalid LOG_ADDITIONAL_FIELDS", <<>>)]
        ELSE [cfg |-> c, err |-> NilError]

\* variant of parseConfig: on an error the Config read so far is returned
parseConfigKeepsPartial(getenv) ==
    LET i == ParseDuration(getenv.INTERVAL)
        d == ParseDuration(getenv.DIAL_TIMEOUT)
        l == ParseBool(getenv.LOG_ADDITIONAL_FIELDS)
        c == [TargetName |-> getenv.TARGET_NAME,
              TargetAddress |-> getenv.TARGET_ADDRESS,
              Interval |-> IF getenv.INTERVAL # <<>> THEN i.d
                           ELSE DefaultInterval,
              DialTimeout |-> IF getenv.DIAL_TIMEOUT # <<>> THEN d.d
                              ELSE DefaultDialTimeout,
              LogAdditionalFields |->
                  IF getenv.LOG_ADDITIONAL_FIELDS # "" THEN l.b ELSE FALSE]
    IN  IF getenv.INTERVAL # <<>> /\ ~i.ok
        THEN [cfg |-> c,
              err |-> Error("invalid INTERVAL", getenv.INTERVAL)]
        ELSE IF getenv.DIAL_TIMEOUT # <<>> /\ ~d.ok
        THEN [cfg |-> c,
              err |-> Error("invalid DIAL_TIMEOUT", getenv.DIAL_TIMEOUT)]
        ELSE IF getenv.LOG_ADDITIONAL_FIELDS # "" /\ ~l.ok
        THEN [cfg |-> c,
              err |-> Error("invalid LOG_ADDITIONAL_FIELDS", <<>>)]
        ELSE [cfg |-> c, err |-> NilError]

\* parseConfig: the Config read from getenv and the error, in the order
\* INTERVAL, DIAL_TIMEOUT, LOG_ADDITIONAL_FIELDS
parseConfig(getenv) ==
    LET i == ParseDuration(getenv.INTERVAL)
        d == ParseDuration(getenv.DIAL_TIMEOUT)
        l == ParseBool(getenv.LOG_ADDITIONAL_FIELDS)
        c == [TargetName |-> getenv.TARGET_NAME,
              TargetAddress |-> getenv.TARGET_ADDRESS,
              Interval |-> IF getenv.INTERVAL # <<>> THEN i.d
                           ELSE DefaultInterval,
              DialTimeout |-> IF getenv.DIAL_TIMEOUT # <<>> THEN d.d
                              ELSE DefaultDialTimeout,
              LogAdditionalFields |->
                  IF getenv.LOG_ADDITIONAL_FIELDS # "" THEN l.b ELSE FALSE]
    IN  IF getenv.INTERVAL # <<>> /\ ~i.ok
        THEN [cfg |-> ZeroConfig,
              err |-> Error("invalid INTERVAL", getenv.INTERVAL)]
        ELSE IF getenv.DIAL_TIMEOUT # <<>> /\ ~d.ok
        THEN [cfg |-> ZeroConfig,
              err |-> Error("invalid DIAL_TIMEOUT", getenv.DIAL_TIMEOUT)]
        ELSE IF getenv.LOG_ADDITIONAL_FIELDS # "" /\ ~l.ok
        THEN [cfg |-> ZeroConfig,
              err |-> Error("invalid LOG_ADDITIONAL_FIELDS", <<>>)]
        ELSE [cfg |-> c, err |-> NilError]

\* the target name inferred from the host part of the address
InferredName(addr) == SplitN2(SplitN2(addr, <<":">>)[1], <<".">>)[1]

\* variant of SchemaOf: the part after the separator is named
SchemaOfWrongPart(addr) == SplitN2(addr, <<":", "/", "/">>)[2]

\* schema[0] of strings.SplitN(cfg.TargetAddress, "://", 2)
SchemaOf(addr) == SplitN2(addr, <<":", "/", "/">>)[1]

\* variant of AddressError: the host:port format is not checked
AddressErrorNoFormat(addr) ==
    IF addr = <<>> THEN Error("address required", <<>>)
    ELSE IF Len(SplitN2(addr, <<":", "/", "/">>)) > 1
    THEN Error("schema", SchemaOf(addr))
    ELSE NilError

\* the checks of validateConfig on cfg.TargetAddress
AddressError(addr) ==
    IF addr = <<>> THEN Error("address required", <<>>)
    ELSE IF Len(SplitN2(addr, <<":", "/", "/">>)) > 1
    THEN Error("schema", SchemaOf(addr))
    ELSE IF ~Contains(addr, <<":">>) THEN Error("address format", <<>>)
    ELSE NilError

\* variant of DurationError: the dial timeout is checked first
DurationErrorDialFirst(c) ==
    IF c.DialTimeout < 0 THEN Error("negative dial timeout", <<>>)
    ELSE IF c.Interval < 0 THEN Error("negative interval", <<>>)
    ELSE NilError

\* variant of DurationError: a zero duration is rejected too
DurationErrorRejectsZero(c) ==
    IF c.Interval <= 0 THEN Error("negative interval", <<>>)
    ELSE IF c.DialTimeout <= 0 THEN Error("negative dial timeout", <<>>)
    ELSE NilError

\* the checks of validateConfig on cfg.Interval and cfg.DialTimeout
DurationError(c) ==
    IF c.Interval < 0 THEN Error("negative interval", <<>>)
    ELSE IF c.DialTimeout < 0 THEN Error("negative dial timeout", <<>>)
    ELSE NilError

\* variant of validateConfig: the durations are checked before the address
validateConfigDurationsFirst(c) ==
    IF DurationError(c) # NilError
    THEN [cfg |-> c, err |-> DurationError(c)]
    ELSE IF AddressError(c.TargetAddress) # NilError
    THEN [cfg |-> c, err |-> AddressError(c.TargetAddress)]
    ELSE [cfg |-> IF c.TargetName = <<>>
                  THEN [c EXCEPT !.TargetName = InferredName(c.TargetAddress)]
                  ELSE c,
          err |-> NilError]

\* variant of validateConfig: the address is cut down to its host part once
\* the name has been inferred from it
validateConfigStripsPort(c) ==
    IF AddressError(c.TargetAddress) # NilError
    THEN [cfg |-> c, err |-> AddressError(c.TargetAddress)]
    ELSE LET named == IF c.TargetName = <<>>
                      THEN [c EXCEPT
                               !.TargetName = InferredName(c.TargetAddress),
                               !.TargetAddress =
                                   SplitN2(c.TargetAddress, <<":">>)[1]]
                      ELSE c
         IN  [cfg |-> named, err |-> DurationError(named)]

\* variant of validateConfig: the name is inferred also when one is given
validateConfigAlwaysInfers(c) ==
    IF AddressError(c.TargetAddress) # NilError
    THEN [cfg |-> c, err |-> AddressError(c.TargetAddress)]
    ELSE LET named == [c EXCEPT
                          !.TargetName = InferredName(c.TargetAddress)]
         IN  [cfg |-> named, err |-> DurationError(named)]

\* validateConfig: the Config as the call leaves it, and the error
validateConfig(c) ==
    IF AddressError(c.TargetAddress) # NilError
    THEN [cfg |-> c, err |-> AddressError(c.TargetAddress)]
    ELSE LET named == IF c.TargetName = <<>>
                      THEN [c EXCEPT
                               !.TargetName = InferredName(c.TargetAddress)]
                      ELSE c
         IN  [cfg |-> named, err |-> DurationError(named)]

VARIABLES
    cfg,        \* Config handed to waitForTarget (Interval, DialTimeout)
    deadlineAt, \* deadline of ctx, or NoDeadline
    now,        \* the clock
    pc,         \* position of the waitForTarget goroutine
    ctxErr,     \* ctx.Err(): "none" until the context is done
    err,        \* local err of the loop body: "nil" or a dial error
    ret,        \* value returned by waitForTarget, "none" until it returns
    events,     \* records handed to the logger, in order
    attempts,   \* number of DialContext calls started
    results,    \* outcome of each DialContext call that has returned
    inflight,   \* DialContext calls in progress
    conns,      \* connections open (dialled and not yet closed)
    dialStart,  \* time the current DialContext call started
    timerAt,    \* time the current time.After timer is due
    sel,        \* case the select was resolved to: "none", "timer", "done"
    listening,  \* whether the target accepts connections
    firedAt,    \* where the loop was when the context became done
    env,        \* the environment read through getenv
    cfgIn,      \* the Config as it was handed to validateConfig
    runRet,     \* error returned by run (or by validateConfig called alone)
    exitCode,   \* exit status of the process, NoExit while it runs
    signalled,  \* whether SIGINT or SIGTERM was delivered
    routines    \* the goroutines that run waitForTarget concurrently

vars == <<cfg, deadlineAt, now, pc, ctxErr, err, ret, events, attempts,
          results, inflight, conns, dialStart, timerAt, sel, listening,
          firedAt, env, cfgIn, runRet, exitCode, signalled, routines>>

\* the state of run and main around the loop
runVars == <<env, cfgIn, runRet, exitCode, signalled, routines>>

\* exitCode of a process that has not exited
NoExit == -1

\* positions at which waitForTarget has returned
Returned == {"done", "returned", "exited"}

\* ---- log records ----
\* a slog record: time, level, message and the "error" attribute
InfoEvent(m) == [time |-> now, level |-> "INFO", msg |-> m, error |-> ""]

WarnEvent(m, e) == [time |-> now, level |-> "WARN", msg |-> m, error |-> e]

StartEvent == InfoEvent("waiting")

SuccessEvent == InfoEvent("ready")

FailureEvent(e) == WarnEvent("not ready", e)

IsStart(ev) == ev.level = "INFO" /\ ev.msg = "waiting"

IsSuccess(ev) == ev.level = "INFO" /\ ev.msg = "ready"

IsFailure(ev) == ev.level = "WARN" /\ ev.msg = "not ready"

RECURSIVE CountEvents(_, _)
CountEvents(s, m) ==
    IF s = <<>> THEN 0
    ELSE (IF Head(s).msg = m THEN 1 ELSE 0) + CountEvents(Tail(s), m)

NumFailures == CountEvents(events, "not ready")

NumSuccesses == CountEvents(events, "ready")

NumStarts == CountEvents(events, "waiting")

NeverFired == [pc |-> "never", now |-> 0, attempts |-> 0, nevents |-> 0]

Snapshot == [pc |-> pc, now |-> now, attempts |-> attempts,
             nevents |-> Len(events)]

\* ---- setupLogger ----

\* const version
version == "0.0.24"

\* strconv.Itoa of a natural number
RECURSIVE Itoa(_)
Itoa(n) ==
    IF n < 10 THEN <<DigitOrder[n + 1]>>
    ELSE Itoa(n \div 10) \o <<DigitOrder[(n % 10) + 1]>>

\* Duration.String of a whole number of seconds: 0s, 2s, 1m30s, 1h0m0s
DurationString(d) ==
    LET a == IF d < 0 THEN 0 - d ELSE d
        h == a \div 3600
        m == (a % 3600) \div 60
        sec == a % 60
        text == (IF h > 0 THEN Itoa(h) \o <<"h">> ELSE <<>>)
                \o (IF h > 0 \/ m > 0 THEN Itoa(m) \o <<"m">> ELSE <<>>)
                \o Itoa(sec) \o <<"s">>
    IN  IF d < 0 THEN <<"-">> \o text ELSE text

\* the attributes of a record without any
NoAttrs == <<>>

\* variant of setupLogger: the settings are attached whatever the flag says
setupLoggerAlwaysWith(c) ==
    [with |-> [target_address |-> c.TargetAddress,
               interval |-> DurationString(c.Interval),
               dial_timeout |-> DurationString(c.DialTimeout),
               version |-> version],
     dropError |-> ~c.LogAdditionalFields]

\* setupLogger: the attributes the logger adds to every record, and whether
\* its handler removes the "error" attribute
setupLogger(c) ==
    IF c.LogAdditionalFields
    THEN [with |-> [target_address |-> c.TargetAddress,
                    interval |-> DurationString(c.Interval),
                    dial_timeout |-> DurationString(c.DialTimeout),
                    version |-> version],
          dropError |-> FALSE]
    ELSE [with |-> NoAttrs, dropError |-> TRUE]

\* the record as the handler of logger writes it
Handle(logger, ev) ==
    [level |-> ev.level, msg |-> ev.msg,
     attrs |-> IF ev.error # "" /\ ~logger.dropError
               THEN logger.with @@ [error |-> ev.error]
               ELSE logger.with]

\* what the logger of run has written
Output == [i \in 1..Len(events) |-> Handle(setupLogger(cfg), events[i])]

\* ---- initial state: waitForTarget has just been called ----
\* an environment with no variable set
EmptyEnv ==
    [TARGET_NAME |-> <<>>, TARGET_ADDRESS |-> <<>>, INTERVAL |-> <<>>,
     DIAL_TIMEOUT |-> <<>>, LOG_ADDITIONAL_FIELDS |-> ""]

\* the Configs the tests hand to waitForTarget: a name, a host:port address
LoopConfigs ==
    [TargetName : {<<"d", "b">>}, TargetAddress : {<<"h", ":", "1">>},
     Interval : 0..MaxInterval, DialTimeout : 0..MaxDialTimeout,
     LogAdditionalFields : {FALSE}]

\* the loop before its first statement, run and main not involved
LoopStart ==
    /\ now = 0
    /\ ctxErr = "none"
    /\ err = "nil"
    /\ ret = "none"
    /\ events = <<>>
    /\ attempts = 0
    /\ results = <<>>
    /\ inflight = 0
    /\ conns = 0
    /\ dialStart = 0
    /\ timerAt = 0
    /\ sel = "none"
    /\ firedAt = NeverFired
    /\ runRet = NotReturned
    /\ exitCode = NoExit
    /\ signalled = FALSE
    /\ routines = <<>>

Init ==
    /\ cfg \in LoopConfigs
    /\ deadlineAt \in {NoDeadline} \cup (0..MaxDeadline)
    /\ env = EmptyEnv
    /\ cfgIn = cfg
    /\ pc = "start"
    /\ listening \in BOOLEAN
    /\ LoopStart

\* ---- waitForTarget ----

\* variant of Start: the start record is not logged
StartSilent ==
    /\ pc = "start"
    /\ pc' = "loop"
    /\ UNCHANGED <<cfg, deadlineAt, now, ctxErr, err, ret, events, attempts,
                   results, inflight, conns, dialStart, timerAt, sel,
                   listening, firedAt>>
    /\ UNCHANGED runVars

\* variant of Start: a context that is already done ends the call at once
StartChecksCtx ==
    /\ pc = "start"
    /\ events' = Append(events, StartEvent)
    /\ IF ctxErr # "none"
          THEN /\ ret' = IF ctxErr = "canceled" THEN "nil" ELSE ctxErr
               /\ pc' = "done"
          ELSE pc' = "loop" /\ UNCHANGED ret
    /\ UNCHANGED <<cfg, deadlineAt, now, ctxErr, err, attempts, results,
                   inflight, conns, dialStart, timerAt, sel, listening,
                   firedAt>>
    /\ UNCHANGED runVars

\* logger.Info("Waiting for ... to become ready..."), dialer := &net.Dialer{}
Start ==
    /\ pc = "start"
    /\ events' = Append(events, StartEvent)
    /\ pc' = "loop"
    /\ UNCHANGED <<cfg, deadlineAt, now, ctxErr, err, ret, attempts, results,
                   inflight, conns, dialStart, timerAt, sel, listening,
                   firedAt>>
    /\ UNCHANGED runVars

\* variant of DialStart: the dial is not bound to ctx
DialStartIgnoresCtx ==
    /\ pc = "loop"
    /\ attempts < MaxAttempts
    /\ attempts' = attempts + 1
    /\ dialStart' = now
    /\ pc' = "dialing"
    /\ inflight' = inflight + 1
    /\ UNCHANGED <<cfg, deadlineAt, now, ctxErr, err, ret, events, results,
                   conns, timerAt, sel, listening, firedAt>>
    /\ UNCHANGED runVars

\* checkConnection is called; DialContext with a context that is already
\* done returns its error without connecting
DialStart ==
    /\ pc = "loop"
    /\ attempts < MaxAttempts
    /\ attempts' = attempts + 1
    /\ dialStart' = now
    /\ IF ctxErr # "none"
          THEN /\ results' = Append(results, "aborted")
               /\ err' = "aborted"
               /\ pc' = "report"
               /\ UNCHANGED inflight
          ELSE /\ pc' = "dialing"
               /\ inflight' = inflight + 1
               /\ UNCHANGED <<results, err>>
    /\ UNCHANGED <<cfg, deadlineAt, now, ctxErr, ret, events, conns, timerAt,
                   sel, listening, firedAt>>
    /\ UNCHANGED runVars

\* the outcomes DialContext can return in the current state
DialOutcomes ==
    (IF listening THEN {"ok"} ELSE {"refused", "dns"})
    \cup (IF ~listening /\ cfg.DialTimeout # 0
             /\ now >= dialStart + cfg.DialTimeout
          THEN {"timeout"} ELSE {})
    \cup (IF ctxErr # "none" THEN {"aborted"} ELSE {})

\* variant of DialReturn: a dial that timed out is abandoned, not ended
DialReturnLeaky(o) ==
    /\ pc = "dialing"
    /\ o \in DialOutcomes
    /\ inflight' = IF o = "timeout" THEN inflight ELSE inflight - 1
    /\ results' = Append(results, o)
    /\ IF o = "ok"
          THEN /\ conns' = conns + 1
               /\ pc' = "close"
               /\ UNCHANGED err
          ELSE /\ err' = o
               /\ pc' = "report"
               /\ UNCHANGED conns
    /\ UNCHANGED <<cfg, deadlineAt, now, ctxErr, ret, events, attempts,
                   dialStart, timerAt, sel, listening, firedAt>>
    /\ UNCHANGED runVars

\* DialContext returns
DialReturn(o) ==
    /\ pc = "dialing"
    /\ o \in DialOutcomes
    /\ inflight' = inflight - 1
    /\ results' = Append(results, o)
    /\ IF o = "ok"
          THEN /\ conns' = conns + 1
               /\ pc' = "close"
               /\ UNCHANGED err
          ELSE /\ err' = o
               /\ pc' = "report"
               /\ UNCHANGED conns
    /\ UNCHANGED <<cfg, deadlineAt, now, ctxErr, ret, events, attempts,
                   dialStart, timerAt, sel, listening, firedAt>>
    /\ UNCHANGED runVars

\* variant of CloseConn: the deferred conn.Close() is missing
CloseConnLeaks ==
    /\ pc = "close"
    /\ err' = "nil"
    /\ pc' = "report"
    /\ UNCHANGED <<cfg, deadlineAt, now, ctxErr, ret, events, attempts,
                   results, inflight, conns, dialStart, timerAt, sel,
                   listening, firedAt>>
    /\ UNCHANGED runVars

\* defer conn.Close(); return nil
CloseConn ==
    /\ pc = "close"
    /\ conns' = conns - 1
    /\ err' = "nil"
    /\ pc' = "report"
    /\ UNCHANGED <<cfg, deadlineAt, now, ctxErr, ret, events, attempts,
                   results, inflight, dialStart, timerAt, sel, listening,
                   firedAt>>
    /\ UNCHANGED runVars

\* variant of ReportSuccess: a context that is done wins over the success
ReportSuccessChecksCtx ==
    /\ pc = "report"
    /\ err = "nil"
    /\ events' = IF ctxErr = "none" THEN Append(events, SuccessEvent)
                  ELSE events
    /\ ret' = IF ctxErr = "deadline" THEN "deadline" ELSE "nil"
    /\ pc' = "done"
    /\ UNCHANGED <<cfg, deadlineAt, now, ctxErr, err, attempts, results,
                   inflight, conns, dialStart, timerAt, sel, listening,
                   firedAt>>
    /\ UNCHANGED runVars

\* variant of ReportSuccess: the return after the success record is missing
ReportSuccessNoReturn ==
    /\ pc = "report"
    /\ err = "nil"
    /\ events' = Append(events, SuccessEvent)
    /\ pc' = "loop"
    /\ UNCHANGED <<cfg, deadlineAt, now, ctxErr, err, ret, attempts, results,
                   inflight, conns, dialStart, timerAt, sel, listening,
                   firedAt>>
    /\ UNCHANGED runVars

\* if err == nil { logger.Info("... is ready"); return nil }
ReportSuccess ==
    /\ pc = "report"
    /\ err = "nil"
    /\ events' = Append(events, SuccessEvent)
    /\ ret' = "nil"
    /\ pc' = "done"
    /\ UNCHANGED <<cfg, deadlineAt, now, ctxErr, err, attempts, results,
                   inflight, conns, dialStart, timerAt, sel, listening,
                   firedAt>>
    /\ UNCHANGED runVars

\* variant of NextDelay: the delay grows with the number of attempts
NextDelayBackoff(c, n) == c.Interval * n

\* duration handed to time.After before attempt n + 1
NextDelay(c, n) == c.Interval

\* variant of ReportFailure: the dial error is returned to the caller
ReportFailureReturnsErr ==
    /\ pc = "report"
    /\ err # "nil"
    /\ events' = Append(events, FailureEvent(err))
    /\ ret' = err
    /\ pc' = "done"
    /\ UNCHANGED <<cfg, deadlineAt, now, ctxErr, err, attempts, results,
                   inflight, conns, dialStart, timerAt, sel, listening,
                   firedAt>>
    /\ UNCHANGED runVars

\* variant of ReportFailure: the failure record is not logged
ReportFailureSilent ==
    /\ pc = "report"
    /\ err # "nil"
    /\ timerAt' = now + NextDelay(cfg, attempts)
    /\ sel' = "none"
    /\ pc' = "select"
    /\ UNCHANGED <<cfg, deadlineAt, now, ctxErr, err, ret, events, attempts,
                   results, inflight, conns, dialStart, listening, firedAt>>
    /\ UNCHANGED runVars

\* variant of ReportFailure: the loop gives up after the second failure
ReportFailureGiveUp ==
    /\ pc = "report"
    /\ err # "nil"
    /\ events' = Append(events, FailureEvent(err))
    /\ timerAt' = now + NextDelay(cfg, attempts)
    /\ sel' = "none"
    /\ IF attempts >= 2
          THEN ret' = "nil" /\ pc' = "done"
          ELSE pc' = "select" /\ UNCHANGED ret
    /\ UNCHANGED <<cfg, deadlineAt, now, ctxErr, err, attempts, results,
                   inflight, conns, dialStart, listening, firedAt>>
    /\ UNCHANGED runVars

\* variant of ReportFailure: only the first failure is logged
ReportFailureWarnsOnce ==
    /\ pc = "report"
    /\ err # "nil"
    /\ events' = IF NumFailures = 0 THEN Append(events, FailureEvent(err))
                  ELSE events
    /\ timerAt' = now + NextDelay(cfg, attempts)
    /\ sel' = "none"
    /\ pc' = "select"
    /\ UNCHANGED <<cfg, deadlineAt, now, ctxErr, err, ret, attempts, results,
                   inflight, conns, dialStart, listening, firedAt>>
    /\ UNCHANGED runVars

\* variant of ReportFailure: the dial timeout of the Config is shortened
\* after a failure
ReportFailureShortensTimeout ==
    /\ pc = "report"
    /\ err # "nil"
    /\ events' = Append(events, FailureEvent(err))
    /\ timerAt' = now + NextDelay(cfg, attempts)
    /\ sel' = "none"
    /\ pc' = "select"
    /\ cfg' = [cfg EXCEPT !.DialTimeout = IF @ > 0 THEN @ - 1 ELSE @]
    /\ UNCHANGED <<deadlineAt, now, ctxErr, err, ret, attempts, results,
                   inflight, conns, dialStart, listening, firedAt>>
    /\ UNCHANGED runVars

\* logger.Warn("... is not ready", "error", err.Error()); the select
\* statement evaluates time.After(cfg.Interval)
ReportFailure ==
    /\ pc = "report"
    /\ err # "nil"
    /\ events' = Append(events, FailureEvent(err))
    /\ timerAt' = now + NextDelay(cfg, attempts)
    /\ sel' = "none"
    /\ pc' = "select"
    /\ UNCHANGED <<cfg, deadlineAt, now, ctxErr, err, ret, attempts, results,
                   inflight, conns, dialStart, listening, firedAt>>
    /\ UNCHANGED runVars

\* the cases of the select that can proceed
ReadyCases ==
    (IF now >= timerAt THEN {"timer"} ELSE {})
    \cup (IF ctxErr # "none" THEN {"done"} ELSE {})

\* entry of the select: one of the ready cases is chosen, or the goroutine
\* parks until a case becomes ready
SelectPoll ==
    /\ pc = "select"
    /\ IF ReadyCases = {}
          THEN /\ pc' = "blocked"
               /\ UNCHANGED sel
          ELSE /\ \E c \in ReadyCases : sel' = c
               /\ pc' = "case"
    /\ UNCHANGED <<cfg, deadlineAt, now, ctxErr, err, ret, events, attempts,
                   results, inflight, conns, dialStart, timerAt, listening,
                   firedAt>>
    /\ UNCHANGED runVars

\* variant of TimerFire: the timer is delivered only after it is overdue
TimerFireLate ==
    /\ pc = "blocked"
    /\ now > timerAt
    /\ sel' = "timer"
    /\ pc' = "case"
    /\ UNCHANGED <<cfg, deadlineAt, now, ctxErr, err, ret, events, attempts,
                   results, inflight, conns, dialStart, timerAt, listening,
                   firedAt>>
    /\ UNCHANGED runVars

\* the timer of time.After delivers to the parked select
TimerFire ==
    /\ pc = "blocked"
    /\ now >= timerAt
    /\ sel' = "timer"
    /\ pc' = "case"
    /\ UNCHANGED <<cfg, deadlineAt, now, ctxErr, err, ret, events, attempts,
                   results, inflight, conns, dialStart, timerAt, listening,
                   firedAt>>
    /\ UNCHANGED runVars

\* case <-time.After(cfg.Interval): continue with the next attempt
CaseTimer ==
    /\ pc = "case"
    /\ sel = "timer"
    /\ sel' = "none"
    /\ pc' = "loop"
    /\ UNCHANGED <<cfg, deadlineAt, now, ctxErr, err, ret, events, attempts,
                   results, inflight, conns, dialStart, timerAt, listening,
                   firedAt>>
    /\ UNCHANGED runVars

\* variant of DoneResult: ctx.Err() is returned whatever it is
DoneResultRaw(e) == e

\* variant of DoneResult: every end of the context is a normal stop
DoneResultNil(e) == "nil"

\* if ctx.Err() == context.Canceled { return nil }; return ctx.Err()
DoneResult(e) == IF e = "canceled" THEN "nil" ELSE e

\* variant of CaseDone: the case does not return, the loop goes on
CaseDoneContinues ==
    /\ pc = "case"
    /\ sel = "done"
    /\ sel' = "none"
    /\ pc' = "loop"
    /\ UNCHANGED <<cfg, deadlineAt, now, ctxErr, err, ret, events, attempts,
                   results, inflight, conns, dialStart, timerAt, listening,
                   firedAt>>
    /\ UNCHANGED runVars

\* case <-ctx.Done()
CaseDone ==
    /\ pc = "case"
    /\ sel = "done"
    /\ ret' = DoneResult(ctxErr)
    /\ pc' = "done"
    /\ UNCHANGED <<cfg, deadlineAt, now, ctxErr, err, events, attempts,
                   results, inflight, conns, dialStart, timerAt, sel,
                   listening, firedAt>>
    /\ UNCHANGED runVars

\* ---- the context ----

\* variant of CtxDone: the wait does not listen to ctx.Done()
CtxDoneNoWake(e) ==
    /\ pc \notin Returned
    /\ ctxErr = "none"
    /\ ctxErr' = e
    /\ firedAt' = Snapshot
    /\ UNCHANGED <<cfg, deadlineAt, now, pc, err, ret, events, attempts,
                   results, inflight, conns, dialStart, timerAt, sel,
                   listening>>

\* the context becomes done with error e; a select parked on ctx.Done() is
\* resolved to that case
CtxDone(e) ==
    /\ pc \notin Returned
    /\ ctxErr = "none"
    /\ ctxErr' = e
    /\ firedAt' = Snapshot
    /\ IF pc = "blocked"
          THEN pc' = "case" /\ sel' = "done"
          ELSE UNCHANGED <<pc, sel>>
    /\ UNCHANGED <<cfg, deadlineAt, now, err, ret, events, attempts, results,
                   inflight, conns, dialStart, timerAt, listening>>

\* cancel() of the caller, or SIGINT/SIGTERM through signal.NotifyContext
Cancel ==
    /\ CtxDone("canceled")
    /\ UNCHANGED runVars

\* the deadline of the context passes
DeadlineFire ==
    /\ deadlineAt # NoDeadline
    /\ now >= deadlineAt
    /\ CtxDone("deadline")
    /\ UNCHANGED runVars

\* ---- the environment ----

ListenerUp ==
    /\ pc \notin Returned
    /\ ~listening
    /\ listening' = TRUE
    /\ UNCHANGED <<cfg, deadlineAt, now, pc, ctxErr, err, ret, events,
                   attempts, results, inflight, conns, dialStart, timerAt,
                   sel, firedAt>>
    /\ UNCHANGED runVars

ListenerDown ==
    /\ pc \notin Returned
    /\ listening
    /\ listening' = FALSE
    /\ UNCHANGED <<cfg, deadlineAt, now, pc, ctxErr, err, ret, events,
                   attempts, results, inflight, conns, dialStart, timerAt,
                   sel, firedAt>>
    /\ UNCHANGED runVars

\* time passes while the goroutine is suspended and no timer is due
Tick ==
    /\ now < MaxTime
    /\ pc \in {"dialing", "blocked"}
    /\ ctxErr = "none"
    /\ deadlineAt # NoDeadline => now < deadlineAt
    /\ pc = "blocked" => now < timerAt
    /\ (pc = "dialing" /\ cfg.DialTimeout # 0)
          => now < dialStart + cfg.DialTimeout
    /\ now' = now + 1
    /\ UNCHANGED <<cfg, deadlineAt, pc, ctxErr, err, ret, events, attempts,
                   results, inflight, conns, dialStart, timerAt, sel,
                   listening, firedAt>>
    /\ UNCHANGED runVars

Next ==
    \/ Start
    \/ DialStart
    \/ \E o \in DialErrors \cup {"ok"} : DialReturn(o)
    \/ CloseConn
    \/ ReportSuccess
    \/ ReportFailure
    \/ SelectPoll
    \/ TimerFire
    \/ CaseTimer
    \/ CaseDone
    \/ Cancel
    \/ DeadlineFire
    \/ ListenerUp
    \/ ListenerDown
    \/ Tick

Spec == Init /\ [][Next]_vars

\* ---- run and main ----

\* run: signal.NotifyContext, cfg, err := parseConfig(getenv)
RunParse ==
    /\ pc = "main"
    /\ cfg' = parseConfig(env).cfg
    /\ IF parseConfig(env).err # NilError
          THEN /\ runRet' = Wrap("configuration", parseConfig(env).err)
               /\ pc' = "returned"
               /\ UNCHANGED cfgIn
          ELSE /\ cfgIn' = parseConfig(env).cfg
               /\ pc' = "validate"
               /\ UNCHANGED runRet
    /\ UNCHANGED <<deadlineAt, now, ctxErr, err, ret, events, attempts,
                   results, inflight, conns, dialStart, timerAt, sel,
                   listening, firedAt, routines, env, exitCode, signalled>>

\* variant of RunValidate: a validation error is dropped
RunValidateIgnoresErr ==
    /\ pc = "validate"
    /\ cfg' = validateConfig(cfg).cfg
    /\ pc' = "start"
    /\ UNCHANGED <<deadlineAt, now, ctxErr, err, ret, events, attempts,
                   results, inflight, conns, dialStart, timerAt, sel,
                   listening, firedAt, routines, env, cfgIn, runRet, exitCode,
                   signalled>>

\* run: validateConfig(&cfg), then setupLogger and the call of waitForTarget
RunValidate ==
    /\ pc = "validate"
    /\ cfg' = validateConfig(cfg).cfg
    /\ IF validateConfig(cfg).err # NilError
          THEN /\ runRet' = Wrap("validation", validateConfig(cfg).err)
               /\ pc' = "returned"
          ELSE /\ pc' = "start"
               /\ UNCHANGED runRet
    /\ UNCHANGED <<deadlineAt, now, ctxErr, err, ret, events, attempts,
                   results, inflight, conns, dialStart, timerAt, sel,
                   listening, firedAt, routines, env, cfgIn, exitCode, signalled>>

\* variant of RunReturn: the result of waitForTarget is wrapped even if nil
RunReturnWrapsNil ==
    /\ pc = "done"
    /\ runRet' = Wrap("wait", Error(ret, <<>>))
    /\ pc' = "returned"
    /\ UNCHANGED <<cfg, deadlineAt, now, ctxErr, err, ret, events, attempts,
                   results, inflight, conns, dialStart, timerAt, sel,
                   listening, firedAt, routines, env, cfgIn, exitCode, signalled>>

\* run: return waitForTarget(ctx, cfg, logger)
RunReturn ==
    /\ pc = "done"
    /\ runRet' = Error(ret, <<>>)
    /\ pc' = "returned"
    /\ UNCHANGED <<cfg, deadlineAt, now, ctxErr, err, ret, events, attempts,
                   results, inflight, conns, dialStart, timerAt, sel,
                   listening, firedAt, routines, env, cfgIn, exitCode, signalled>>

\* variant of Exit: the exit status is 0 whatever run returned
ExitAlwaysZero ==
    /\ pc = "returned"
    /\ exitCode' = 0
    /\ pc' = "exited"
    /\ UNCHANGED <<cfg, deadlineAt, now, ctxErr, err, ret, events, attempts,
                   results, inflight, conns, dialStart, timerAt, sel,
                   listening, firedAt, routines, env, cfgIn, runRet, signalled>>

\* main: if err := run(...); err != nil { ...; os.Exit(1) }
Exit ==
    /\ pc = "returned"
    /\ exitCode' = IF runRet = NilError THEN 0 ELSE 1
    /\ pc' = "exited"
    /\ UNCHANGED <<cfg, deadlineAt, now, ctxErr, err, ret, events, attempts,
                   results, inflight, conns, dialStart, timerAt, sel,
                   listening, firedAt, routines, env, cfgIn, runRet, signalled>>

\* SIGINT or SIGTERM: signal.NotifyContext cancels the context of run
Signal ==
    /\ signalled' = TRUE
    /\ CtxDone("canceled")
    /\ UNCHANGED <<env, cfgIn, runRet, exitCode, routines>>

\* the environments of the process
RunEnvs ==
    [TARGET_NAME : {<<>>, <<"d", "b">>},
     TARGET_ADDRESS : {<<>>, <<"h">>, <<"h", ".", "x", ":", "1">>,
                       <<"s", ":", "/", "/", "h">>},
     INTERVAL : {<<>>, <<"0", "s">>, <<"-", "s">>, <<"-", "1", "s">>},
     DIAL_TIMEOUT : {<<>>, <<"x">>, <<"-", "1", "s">>},
     LOG_ADDITIONAL_FIELDS : {"", "true", "tr"}]

\* the process at the call of run
RunInit ==
    /\ env \in RunEnvs
    /\ cfg = ZeroConfig
    /\ cfgIn = ZeroConfig
    /\ deadlineAt \in {NoDeadline} \cup (0..MaxDeadline)
    /\ pc = "main"
    /\ listening \in BOOLEAN
    /\ LoopStart

RunNext ==
    \/ RunParse
    \/ RunValidate
    \/ RunReturn
    \/ Exit
    \/ Signal
    \/ Next

RunSpec == RunInit /\ [][RunNext]_vars

\* ---- validateConfig called alone ----

\* length of the longest target address tried
MaxAddrLen == 5

AddrChars == {"h", ".", ":", "/"}

\* the strings over C of length at most n
Strings(C, n) == UNION {[1..k -> C] : k \in 0..n}

\* an address whose host is an IPv6 literal: [::1]:1
LiteralAddrs == {<<"[", ":", ":", "1", "]", ":", "1">>}

ValidateConfigs ==
    [TargetName : {<<>>, <<"d", "b">>},
     TargetAddress : Strings(AddrChars, MaxAddrLen) \cup LiteralAddrs,
     Interval : (0 - 1)..1, DialTimeout : (0 - 1)..1,
     LogAdditionalFields : {FALSE}]

ValidateInit ==
    /\ cfg \in ValidateConfigs
    /\ cfgIn = cfg
    /\ env = EmptyEnv
    /\ deadlineAt = NoDeadline
    /\ pc = "call"
    /\ listening = FALSE
    /\ LoopStart

\* err := validateConfig(&cfg)
Validate ==
    /\ pc = "call"
    /\ cfg' = validateConfig(cfg).cfg
    /\ runRet' = validateConfig(cfg).err
    /\ pc' = "validated"
    /\ UNCHANGED <<deadlineAt, now, ctxErr, err, ret, events, attempts,
                   results, inflight, conns, dialStart, timerAt, sel,
                   listening, firedAt, routines, env, cfgIn, exitCode, signalled>>

\* validateConfig(&cfg) once more, on a Config that has passed
Revalidate ==
    /\ pc = "validated"
    /\ runRet = NilError
    /\ cfg' = validateConfig(cfg).cfg
    /\ runRet' = validateConfig(cfg).err
    /\ pc' = "revalidated"
    /\ UNCHANGED <<deadlineAt, now, ctxErr, err, ret, events, attempts,
                   results, inflight, conns, dialStart, timerAt, sel,
                   listening, firedAt, routines, env, cfgIn, exitCode, signalled>>

ValidateNext ==
    \/ Validate
    \/ Revalidate

ValidateSpec == ValidateInit /\ [][ValidateNext]_vars

\* ---- waitForTarget called from several goroutines ----

\* number of goroutines that call waitForTarget
NumRoutines == 2

\* calls of DialContext one goroutine may make, and the last clock value
MaxGoAttempts == 2

MaxGoTime == 1

Routines == 1..NumRoutines

\* the Config every goroutine gets a copy of
ConcConfig ==
    [TargetName |-> <<"d", "b">>, TargetAddress |-> <<"h", ":", "1">>,
     Interval |-> 1, DialTimeout |-> 1, LogAdditionalFields |-> FALSE]

\* the locals of one call of waitForTarget: its copy of cfg, its position,
\* err, the value returned, the calls of DialContext made, the start of the
\* current dial, the time.After timer and the case of the select
Routine(c) ==
    [cfg |-> c, pc |-> "start", err |-> "nil", ret |-> "none",
     attempts |-> 0, dialStart |-> 0, timerAt |-> 0, sel |-> "none"]

\* a record handed to the shared logger by goroutine i.  The logger is
\* shared, and the order in which it gets the records of different goroutines
\* is not determined: events is the bag of the records written.
GoEvent(i, ev) ==
    [by |-> i, time |-> ev.time, level |-> ev.level, msg |-> ev.msg,
     error |-> ev.error]

\* the variables of the single call and of the process, not used here
idleVars ==
    <<cfg, deadlineAt, pc, err, ret, attempts, results, inflight, conns,
      dialStart, timerAt, sel, firedAt, env, cfgIn, runRet, exitCode,
      signalled>>

\* the test: a listener (or none), one context, one logger, the goroutines
ConcInit ==
    /\ routines = [i \in Routines |-> Routine(ConcConfig)]
    /\ listening \in BOOLEAN
    /\ now = 0
    /\ ctxErr = "none"
    /\ events = EmptyBag
    /\ cfg = ConcConfig
    /\ cfgIn = ConcConfig
    /\ env = EmptyEnv
    /\ deadlineAt = NoDeadline
    /\ pc = "go"
    /\ err = "nil"
    /\ ret = "none"
    /\ attempts = 0
    /\ results = <<>>
    /\ inflight = 0
    /\ conns = 0
    /\ dialStart = 0
    /\ timerAt = 0
    /\ sel = "none"
    /\ firedAt = NeverFired
    /\ runRet = NotReturned
    /\ exitCode = NoExit
    /\ signalled = FALSE

\* logger.Info("Waiting for ... to become ready..."), in goroutine i
GoStart(i) ==
    /\ routines[i].pc = "start"
    /\ events' = events (+) SetToBag({GoEvent(i, StartEvent)})
    /\ routines' = [routines EXCEPT ![i].pc = "loop"]
    /\ UNCHANGED <<now, ctxErr, listening>>
    /\ UNCHANGED idleVars

\* checkConnection is called in goroutine i
GoDialStart(i) ==
    /\ routines[i].pc = "loop"
    /\ routines[i].attempts < MaxGoAttempts
    /\ routines' =
           [routines EXCEPT
               ![i].attempts = @ + 1,
               ![i].dialStart = now,
               ![i].err = IF ctxErr # "none" THEN "aborted" ELSE @,
               ![i].pc = IF ctxErr # "none" THEN "report" ELSE "dialing"]
    /\ UNCHANGED <<now, ctxErr, listening, events>>
    /\ UNCHANGED idleVars

\* the outcomes DialContext can return to a goroutine with locals r
GoDialOutcomes(r) ==
    (IF listening THEN {"ok"} ELSE {"refused", "dns"})
    \cup (IF ~listening /\ r.cfg.DialTimeout # 0
             /\ now >= r.dialStart + r.cfg.DialTimeout
          THEN {"timeout"} ELSE {})
    \cup (IF ctxErr # "none" THEN {"aborted"} ELSE {})

\* variant of GoDialReturn: err is a package-level variable, every goroutine
\* sees the error of the dial that returned last
GoDialReturnSharedErr(i, o) ==
    /\ routines[i].pc = "dialing"
    /\ o \in GoDialOutcomes(routines[i])
    /\ routines' =
           [j \in Routines |->
               IF j = i
               THEN [routines[j] EXCEPT
                        !.err = IF o = "ok" THEN @ ELSE o,
                        !.pc = IF o = "ok" THEN "close" ELSE "report"]
               ELSE [routines[j] EXCEPT
                        !.err = IF o = "ok" THEN @ ELSE o]]
    /\ UNCHANGED <<now, ctxErr, listening, events>>
    /\ UNCHANGED idleVars

\* DialContext returns in goroutine i
GoDialReturn(i, o) ==
    /\ routines[i].pc = "dialing"
    /\ o \in GoDialOutcomes(routines[i])
    /\ routines' =
           [routines EXCEPT
               ![i].err = IF o = "ok" THEN @ ELSE o,
               ![i].pc = IF o = "ok" THEN "close" ELSE "report"]
    /\ UNCHANGED <<now, ctxErr, listening, events>>
    /\ UNCHANGED idleVars

\* defer conn.Close(); return nil, in goroutine i
GoCloseConn(i) ==
    /\ routines[i].pc = "close"
    /\ routines' = [routines EXCEPT ![i].err = "nil", ![i].pc = "report"]
    /\ UNCHANGED <<now, ctxErr, listening, events>>
    /\ UNCHANGED idleVars

\* if err == nil { logger.Info("... is ready"); return nil }
GoReportSuccess(i) ==
    /\ routines[i].pc = "report"
    /\ routines[i].err = "nil"
    /\ events' = events (+) SetToBag({GoEvent(i, SuccessEvent)})
    /\ routines' = [routines EXCEPT ![i].ret = "nil", ![i].pc = "done"]
    /\ UNCHANGED <<now, ctxErr, listening>>
    /\ UNCHANGED idleVars

\* logger.Warn("... is not ready", ...); the select evaluates time.After
GoReportFailure(i) ==
    /\ routines[i].pc = "report"
    /\ routines[i].err # "nil"
    /\ events' = events (+) SetToBag({GoEvent(i, FailureEvent(routines[i].err))})
    /\ routines' =
           [routines EXCEPT
               ![i].timerAt = now + NextDelay(routines[i].cfg,
                                              routines[i].attempts),
               ![i].sel = "none",
               ![i].pc = "select"]
    /\ UNCHANGED <<now, ctxErr, listening>>
    /\ UNCHANGED idleVars

\* the cases of the select of a goroutine with locals r that can proceed
GoReadyCases(r) ==
    (IF now >= r.timerAt THEN {"timer"} ELSE {})
    \cup (IF ctxErr # "none" THEN {"done"} ELSE {})

\* entry of the select in goroutine i
GoSelectPoll(i) ==
    /\ routines[i].pc = "select"
    /\ IF GoReadyCases(routines[i]) = {}
          THEN routines' = [routines EXCEPT ![i].pc = "blocked"]
          ELSE \E c \in GoReadyCases(routines[i]) :
                  routines' = [routines EXCEPT ![i].sel = c,
                                               ![i].pc = "case"]
    /\ UNCHANGED <<now, ctxErr, listening, events>>
    /\ UNCHANGED idleVars

\* the timer of time.After delivers to the parked select of goroutine i
GoTimerFire(i) ==
    /\ routines[i].pc = "blocked"
    /\ now >= routines[i].timerAt
    /\ routines' = [routines EXCEPT ![i].sel = "timer", ![i].pc = "case"]
    /\ UNCHANGED <<now, ctxErr, listening, events>>
    /\ UNCHANGED idleVars

\* case <-time.After(cfg.Interval), in goroutine i
GoCaseTimer(i) ==
    /\ routines[i].pc = "case"
    /\ routines[i].sel = "timer"
    /\ routines' = [routines EXCEPT ![i].sel = "none", ![i].pc = "loop"]
    /\ UNCHANGED <<now, ctxErr, listening, events>>
    /\ UNCHANGED idleVars

\* case <-ctx.Done(), in goroutine i
GoCaseDone(i) ==
    /\ routines[i].pc = "case"
    /\ routines[i].sel = "done"
    /\ routines' = [routines EXCEPT ![i].ret = DoneResult(ctxErr),
                                    ![i].pc = "done"]
    /\ UNCHANGED <<now, ctxErr, listening, events>>
    /\ UNCHANGED idleVars

\* cancel() of the context the goroutines share: every select parked on
\* ctx.Done() is resolved to that case
GoCancel ==
    /\ ctxErr = "none"
    /\ \E i \in Routines : routines[i].pc # "done"
    /\ ctxErr' = "canceled"
    /\ routines' =
           [i \in Routines |->
               IF routines[i].pc = "blocked"
               THEN [routines[i] EXCEPT !.sel = "done", !.pc = "case"]
               ELSE routines[i]]
    /\ UNCHANGED <<now, listening, events>>
    /\ UNCHANGED idleVars

\* time passes while every goroutine is suspended or has returned and no
\* timer is due
GoTick ==
    /\ now < MaxGoTime
    /\ ctxErr = "none"
    /\ \E i \in Routines : routines[i].pc \in {"dialing", "blocked"}
    /\ \A i \in Routines :
          /\ routines[i].pc \in {"dialing", "blocked", "done"}
          /\ routines[i].pc = "blocked" => now < routines[i].timerAt
          /\ (routines[i].pc = "dialing" /\ routines[i].cfg.DialTimeout # 0)
                => now < routines[i].dialStart + routines[i].cfg.DialTimeout
    /\ now' = now + 1
    /\ UNCHANGED <<routines, ctxErr, listening, events>>
    /\ UNCHANGED idleVars

ConcNext ==
    \/ \E i \in Routines : GoStart(i)
    \/ \E i \in Routines : GoDialStart(i)
    \/ \E i \in Routines : \E o \in DialErrors \cup {"ok"} : GoDialReturn(i, o)
    \/ \E i \in Routines : GoCloseConn(i)
    \/ \E i \in Routines : GoReportSuccess(i)
    \/ \E i \in Routines : GoReportFailure(i)
    \/ \E i \in Routines : GoSelectPoll(i)
    \/ \E i \in Routines : GoTimerFire(i)
    \/ \E i \in Routines : GoCaseTimer(i)
    \/ \E i \in Routines : GoCaseDone(i)
    \/ GoCancel
    \/ GoTick

ConcSpec == ConcInit /\ [][ConcNext]_vars

\* ---- the loop under fairness ----

\* an attempt after the last one the history variables record, made with a
\* context that is done: DialContext fails at once, the failure is logged and
\* the select evaluates time.After
AttemptBeyond ==
    /\ pc = "loop"
    /\ attempts = MaxAttempts
    /\ ctxErr # "none"
    /\ err' = "aborted"
    /\ timerAt' = now + NextDelay(cfg, attempts)
    /\ sel' = "none"
    /\ pc' = "select"
    /\ UNCHANGED <<cfg, deadlineAt, now, ctxErr, ret, events, attempts,
                   results, inflight, conns, dialStart, listening, firedAt>>
    /\ UNCHANGED runVars

\* variant of StopAfterDone: a late cancel replaces the error of the context
StopAfterDoneOverrides ==
    /\ pc \notin Returned
    /\ ctxErr # "none"
    /\ ~signalled
    /\ signalled' = TRUE
    /\ ctxErr' = "canceled"
    /\ UNCHANGED <<cfg, deadlineAt, now, pc, err, ret, events, attempts,
                   results, inflight, conns, dialStart, timerAt, sel,
                   listening, firedAt, routines, env, cfgIn, runRet,
                   exitCode>>

\* cancel(), or a signal through signal.NotifyContext, when the context is
\* already done: ctx.Err() keeps the error of the first cause
StopAfterDone ==
    /\ pc \notin Returned
    /\ ctxErr # "none"
    /\ ~signalled
    /\ signalled' = TRUE
    /\ UNCHANGED <<cfg, deadlineAt, now, pc, ctxErr, err, ret, events,
                   attempts, results, inflight, conns, dialStart, timerAt,
                   sel, listening, firedAt, routines, env, cfgIn, runRet,
                   exitCode>>

\* the select takes the case <-ctx.Done() at its entry
SelectDone == SelectPoll /\ sel' = "done"

\* the steps of the goroutine that runs waitForTarget
LoopStep ==
    \/ Start
    \/ DialStart
    \/ \E o \in DialErrors \cup {"ok"} : DialReturn(o)
    \/ CloseConn
    \/ ReportSuccess
    \/ ReportFailure
    \/ SelectPoll
    \/ TimerFire
    \/ CaseTimer
    \/ CaseDone
    \/ AttemptBeyond

FairNext ==
    \/ Next
    \/ AttemptBeyond
    \/ StopAfterDone

\* the Configs and deadlines of the runs under fairness: interval zero and
\* positive, with and without a deadline
FairConfigs ==
    [TargetName : {<<"d", "b">>}, TargetAddress : {<<"h", ":", "1">>},
     Interval : {0, 1}, DialTimeout : {1}, LogAdditionalFields : {FALSE}]

FairInit ==
    /\ cfg \in FairConfigs
    /\ deadlineAt \in {NoDeadline, 1}
    /\ env = EmptyEnv
    /\ cfgIn = cfg
    /\ pc = "start"
    /\ listening \in BOOLEAN
    /\ LoopStart

\* the goroutine is scheduled as long as it can run, time goes on, and a
\* deadline that is due fires
FairSpec ==
    /\ FairInit
    /\ [][FairNext]_vars
    /\ WF_vars(LoopStep)
    /\ WF_vars(Tick)
    /\ WF_vars(DeadlineFire)

TypeOK ==
    /\ cfg \in LoopConfigs
    /\ now \in 0..MaxTime
    /\ pc \in {"start", "loop", "dialing", "close", "report", "select",
               "blocked", "case", "done"}
    /\ ctxErr \in CtxErrors \cup {"none"}
    /\ err \in DialErrors \cup {"nil"}
    /\ ret \in DialErrors \cup CtxErrors \cup {"none", "nil"}
    /\ attempts \in 0..MaxAttempts
    /\ sel \in {"none", "timer", "done"}
    /\ listening \in BOOLEAN

\* ---- properties ----

\* s is one start record followed by failure records only
OnlyFailuresAfterStart(s) ==
    /\ Len(s) >= 1
    /\ IsStart(s[1])
    /\ \A i \in 2..Len(s) : IsFailure(s[i])

\* s is one start record, k failure records and one success record
StartFailuresSuccess(s, k) ==
    /\ Len(s) = k + 2
    /\ IsStart(s[1])
    /\ \A i \in 2..(k + 1) : IsFailure(s[i])
    /\ IsSuccess(s[k + 2])

NoDialSucceeded == \A i \in 1..Len(results) : results[i] # "ok"

\* C1: when the explicit cancellation fires while the loop is parked in the
\* inter-attempt wait, the loop goes to the ctx.Done() case and returns nil,
\* whatever the number of failed attempts before.
C1_CancelInWaitReturnsNil ==
    (firedAt.pc = "blocked" /\ ctxErr = "canceled")
        => /\ pc \in {"case", "done"}
           /\ pc = "case" => sel = "done"
           /\ pc = "done" => ret = "nil"

C1_Witness ==
    /\ pc = "done"
    /\ firedAt.pc = "blocked"
    /\ ctxErr = "canceled"
    /\ NumFailures >= 2
    /\ NumSuccesses = 0
    /\ ret = "nil"

\* C2: when the deadline has expired and no dial has succeeded, the value
\* returned is the deadline error and every record after the start record
\* is a failure record.
C2_DeadlineReturnsError ==
    (pc = "done" /\ ctxErr = "deadline" /\ NoDialSucceeded)
        => /\ ret = "deadline"
           /\ OnlyFailuresAfterStart(events)

C2_Witness ==
    /\ pc = "done"
    /\ ctxErr = "deadline"
    /\ NoDialSucceeded
    /\ ret = "deadline"
    /\ NumFailures >= 2

\* C3: the value returned is never a dial error: it is nil after a
\* successful dial or an explicit cancellation, or the deadline error.
C3_NoDialErrorReturned ==
    /\ ret \notin DialErrors
    /\ pc = "done"
          => \/ ret = "nil" /\ NumSuccesses = 1
             \/ ret = "nil" /\ ctxErr = "canceled"
             \/ ret = "deadline" /\ ctxErr = "deadline"

C3_Witness ==
    /\ pc = "done"
    /\ ret = "nil"
    /\ \E i \in 1..Len(results) : results[i] = "refused"
    /\ \E i \in 1..Len(results) : results[i] = "timeout"

\* C4: a successful dial is the last dial; its connection is closed, exactly
\* one success record is logged as the last record, and the loop has
\* returned nil.
C4_SuccessEndsLoop ==
    /\ NumSuccesses <= 1
    /\ \A i \in 1..Len(results) :
          results[i] = "ok" => (i = Len(results) /\ attempts = i
                                   /\ pc \in {"close", "report", "done"})
    /\ NumSuccesses = 1
          => /\ pc = "done"
             /\ ret = "nil"
             /\ conns = 0
             /\ inflight = 0
             /\ IsSuccess(events[Len(events)])
             /\ Len(results) >= 1
             /\ results[Len(results)] = "ok"

C4_Witness ==
    /\ pc = "done"
    /\ NumSuccesses = 1
    /\ Len(results) = 1
    /\ conns = 0

\* C5: if the first k dials fail, dial k + 1 succeeds and the context never
\* becomes done, the records are start, k failures, success, in that order,
\* and the loop returns nil.
C5_EventSequence ==
    \A k \in 0..MaxAttempts :
        (/\ pc = "done"
         /\ ctxErr = "none"
         /\ Len(results) = k + 1
         /\ \A i \in 1..k : results[i] # "ok"
         /\ results[k + 1] = "ok")
            => (StartFailuresSuccess(events, k) /\ ret = "nil")

C5_Witness ==
    /\ pc = "done"
    /\ ctxErr = "none"
    /\ results = <<"refused", "refused", "ok">>
    /\ Len(events) = 4

\* C6: in every state the log is start, failure*, success?; the start record
\* precedes the first dial, failure record i carries the error of dial i and
\* precedes dial i + 1, and the dials completed are the failure and success
\* records logged plus the one dial whose record is about to be logged.
C6_EventLogShape ==
    /\ \A i \in 1..Len(events) :
          /\ i = 1 => IsStart(events[i])
          /\ (i > 1 /\ i < Len(events)) => IsFailure(events[i])
          /\ (i > 1 /\ i = Len(events))
                => (IsFailure(events[i]) \/ IsSuccess(events[i]))
    /\ attempts >= 1 => Len(events) >= 1
    /\ \A i \in 1..NumFailures :
          /\ i <= Len(results)
          /\ results[i] # "ok"
          /\ events[i + 1].error = results[i]
    /\ attempts <= NumFailures + 1
    /\ Len(results) = NumFailures + NumSuccesses
                        + (IF pc \in {"close", "report"} THEN 1 ELSE 0)

C6_Witness ==
    /\ pc = "report"
    /\ NumFailures = 2
    /\ Len(results) = 3
    /\ err = "timeout"

\* C7: at most one dial is in progress at any time, a dial is in progress
\* only while the loop is inside DialContext, and no dial starts after the
\* loop has returned.
C7_OneDialAtATime ==
    /\ [](/\ inflight <= 1
          /\ inflight = 1 <=> pc = "dialing"
          /\ attempts = Len(results) + inflight)
    /\ [][pc = "done" => (attempts' = attempts /\ inflight' = inflight)]_vars

C7_Witness ==
    /\ pc = "dialing"
    /\ inflight = 1
    /\ attempts = 3
    /\ \E i \in 1..Len(results) : results[i] = "timeout"

\* C8: the loop returns only after a successful dial or after the context
\* became done; while every dial has failed and the context is not done the
\* loop has not returned, whatever the number of failed attempts.
C8_NoMaxAttempts ==
    /\ pc = "done" => (NumSuccesses = 1 \/ ctxErr # "none")
    /\ (ctxErr = "none" /\ NoDialSucceeded)
          => (pc # "done" /\ ret = "none")

C8_Witness ==
    /\ attempts = MaxAttempts
    /\ NumFailures = MaxAttempts
    /\ ctxErr = "none"
    /\ pc = "loop"

\* C9: every attempt after the first starts exactly cfg.Interval after the
\* failure record of the attempt before it was logged, for every attempt.
C9_FixedInterval ==
    (attempts >= 2 /\ attempts = NumFailures + 1 /\ NumSuccesses = 0)
        => dialStart = events[Len(events)].time + cfg.Interval

C9_Witness ==
    /\ attempts = 3
    /\ pc = "dialing"
    /\ cfg.Interval = 2
    /\ dialStart = 4
    /\ ctxErr = "none"

\* C10: when the context becomes done while the loop is parked in the
\* inter-attempt wait, the wait ends at that instant and the loop returns
\* without a further dial and without a further record.
C10_CancelPreemptsSleep ==
    firedAt.pc = "blocked"
        => /\ now = firedAt.now
           /\ attempts = firedAt.attempts
           /\ Len(events) = firedAt.nevents
           /\ pc \in {"case", "done"}
           /\ pc = "case" => sel = "done"
           /\ pc = "done" => ret # "none"

C10_Witness ==
    /\ pc = "done"
    /\ firedAt.pc = "blocked"
    /\ now < timerAt
    /\ ret = "deadline"

\* value the loop returns when it stops because of the context
CauseOutcome == IF ctxErr = "canceled" THEN "nil" ELSE "deadline"

\* C11 (as stated): when the context becomes done while a dial is in
\* progress, the loop stops at that instant with the outcome of the
\* cancellation cause and starts no other dial.
C11_CancelPreemptsDial ==
    firedAt.pc = "dialing"
        => /\ now = firedAt.now
           /\ attempts = firedAt.attempts
           /\ pc = "done" => ret = CauseOutcome

\* C11 (amended): when the context becomes done while a dial is in progress,
\* no time passes until the loop returns.  If that dial returns successfully
\* the loop returns nil; if it returns an error the loop returns the outcome
\* of the cancellation cause.  A further dial starts only when cfg.Interval
\* is 0, and each such dial is aborted.
C11_CancelPreemptsDialAmended ==
    firedAt.pc = "dialing"
        => /\ now = firedAt.now
           /\ cfg.Interval > 0 => attempts = firedAt.attempts
           /\ \A i \in 1..Len(results) :
                 i > firedAt.attempts => results[i] = "aborted"
           /\ pc = "done"
                 => /\ Len(results) >= firedAt.attempts
                    /\ IF results[firedAt.attempts] = "ok"
                          THEN ret = "nil" /\ NumSuccesses = 1
                          ELSE ret = CauseOutcome /\ NumSuccesses = 0

C11_Witness ==
    /\ pc = "done"
    /\ firedAt.pc = "dialing"
    /\ firedAt.now >= 1
    /\ cfg.DialTimeout = 0
    /\ results[firedAt.attempts] = "aborted"
    /\ ret = "deadline"

\* C12: when the explicit cancellation has fired before the loop is entered,
\* the loop returns nil without any dial attempt and without any failure
\* record.
C12_CancelledAtEntry ==
    (firedAt.pc = "start" /\ ctxErr = "canceled")
        => /\ attempts = 0
           /\ NumFailures = 0
           /\ pc = "done" => ret = "nil"

\* C13: a dial that returns successfully while the context is already done
\* still counts: the success record is logged and the loop returns nil.
C13_SuccessBeatsCancel ==
    (Len(results) >= 1 /\ results[Len(results)] = "ok" /\ ctxErr # "none")
        => /\ pc \in {"close", "report", "done"}
           /\ pc = "done"
                 => /\ ret = "nil"
                    /\ NumSuccesses = 1
                    /\ IsSuccess(events[Len(events)])

C13_Witness ==
    /\ pc = "done"
    /\ ctxErr = "deadline"
    /\ firedAt.pc \in {"dialing", "close", "report"}
    /\ results[Len(results)] = "ok"
    /\ ret = "nil"

\* run has returned
RunReturned == pc \in {"returned", "exited"}

\* C14 (as stated): a signal delivered while run is blocked in a dial or in
\* the wait makes run return nil, and a deadline that passes while run is
\* blocked there makes run return an error.
C14_SignalStopsGracefully ==
    (RunReturned /\ firedAt.pc \in {"dialing", "blocked"})
        => /\ signalled => runRet = NilError
           /\ ctxErr = "deadline" => runRet # NilError

\* C14 (amended): a signal delivered while run is blocked in a dial or in
\* the wait makes run return nil.  A deadline that passes while run is
\* blocked in the wait makes run return the deadline error; one that passes
\* while run is blocked in a dial makes run return the deadline error unless
\* that dial returns successfully, and then run returns nil.
C14_SignalStopsGracefullyAmended ==
    (RunReturned /\ firedAt.pc \in {"dialing", "blocked"})
        => /\ signalled => runRet = NilError
           /\ (ctxErr = "deadline" /\ firedAt.pc = "blocked")
                 => runRet = Error("deadline", <<>>)
           /\ (ctxErr = "deadline" /\ firedAt.pc = "dialing")
                 => runRet = IF results[firedAt.attempts] = "ok"
                             THEN NilError
                             ELSE Error("deadline", <<>>)

C14_Witness ==
    /\ RunReturned
    /\ signalled
    /\ firedAt.pc = "dialing"
    /\ firedAt.now >= 1
    /\ NumSuccesses = 0
    /\ runRet = NilError

\* C15: the exit status is non-zero exactly when run returned a
\* configuration error, a validation error or the deadline error, and zero
\* exactly when the loop ended with a successful connection or with an
\* explicit cancellation or signal.
C15_ExitStatus ==
    pc = "exited"
        => /\ exitCode \in {0, 1}
           /\ exitCode = 1
                 <=> \/ runRet.wrap \in {"configuration", "validation"}
                     \/ runRet.kind = "deadline"
           /\ exitCode = 0
                 <=> \/ NumSuccesses = 1
                     \/ (ret = "nil" /\ ctxErr = "canceled")
           /\ runRet.wrap = "configuration"
                 <=> parseConfig(env).err # NilError
           /\ runRet.kind = "deadline"
                 => (ctxErr = "deadline" /\ NumSuccesses = 0)

C15_Witness ==
    /\ pc = "exited"
    /\ exitCode = 1
    /\ runRet.kind = "deadline"
    /\ NumFailures >= 2

\* C16: when parsing or validation fails, run returns that error without any
\* dial attempt and without any log record, and does not go on to the loop.
C16_ConfigErrorBeforeNetwork ==
    /\ runRet.wrap \in {"configuration", "validation"}
          => (RunReturned /\ attempts = 0 /\ results = <<>>
                 /\ events = <<>> /\ inflight = 0 /\ conns = 0)
    /\ (\/ parseConfig(env).err # NilError
        \/ validateConfig(parseConfig(env).cfg).err # NilError)
          => (pc \in {"main", "validate", "returned", "exited"}
                 /\ attempts = 0 /\ events = <<>>)

C16_Witness ==
    /\ pc = "exited"
    /\ runRet.wrap = "validation"
    /\ runRet.kind = "address format"
    /\ ctxErr = "none"
    /\ events = <<>>

\* the rules of validateConfig that c violates, by their number
ViolatedRules(c) ==
    {r \in 1..5 :
        \/ r = 1 /\ c.TargetAddress = <<>>
        \/ r = 2 /\ \E i \in 1..Len(c.TargetAddress) :
                        OccursAt(c.TargetAddress, <<":", "/", "/">>, i)
        \/ r = 3 /\ \A i \in 1..Len(c.TargetAddress) :
                        c.TargetAddress[i] # ":"
        \/ r = 4 /\ c.Interval < 0
        \/ r = 5 /\ c.DialTimeout < 0}

RuleKind ==
    <<"address required", "schema", "address format", "negative interval",
      "negative dial timeout">>

FirstRule(S) == CHOOSE r \in S : \A q \in S : r <= q

\* C17: validateConfig returns the error of the first rule violated, in the
\* order address empty, schema, no ":" separator, negative interval,
\* negative dial timeout, and no error when no rule is violated.
C17_FirstViolationWins ==
    pc = "validated"
        => IF ViolatedRules(cfgIn) = {} THEN runRet = NilError
           ELSE runRet.kind = RuleKind[FirstRule(ViolatedRules(cfgIn))]

C17_Witness ==
    /\ pc = "validated"
    /\ ViolatedRules(cfgIn) = {3, 4, 5}
    /\ runRet.kind = "address format"

\* the raw string is set and does not parse as a duration
Malformed(raw) == raw # <<>> /\ ~ParseDuration(raw).ok

\* the address violates one of the address rules
BadAddress(addr) ==
    ViolatedRules([ZeroConfig EXCEPT !.TargetAddress = addr]) # {}

AddressKinds == {"address required", "schema", "address format"}

\* C18 (as stated): when the target address is missing or malformed and a
\* raw duration is malformed too, run returns the address violation.
C18_AddressBeforeDurations ==
    (/\ RunReturned
     /\ BadAddress(env.TARGET_ADDRESS)
     /\ (Malformed(env.INTERVAL) \/ Malformed(env.DIAL_TIMEOUT)))
        => runRet.kind \in AddressKinds

\* C18 (amended): a raw interval or dial timeout that does not parse is
\* reported before the address rules: with a bad address and a malformed raw
\* duration run returns the configuration error of that duration.  The
\* address rules come before the rules on negative durations: with a bad
\* address and raw settings that all parse, run returns the address
\* violation, also when a duration is negative.
C18_AddressBeforeDurationsAmended ==
    (RunReturned /\ BadAddress(env.TARGET_ADDRESS))
        => IF Malformed(env.INTERVAL)
           THEN runRet.wrap = "configuration"
                   /\ runRet.kind = "invalid INTERVAL"
           ELSE IF Malformed(env.DIAL_TIMEOUT)
           THEN runRet.wrap = "configuration"
                   /\ runRet.kind = "invalid DIAL_TIMEOUT"
           ELSE IF parseConfig(env).err # NilError
           THEN runRet.wrap = "configuration"
           ELSE runRet.wrap = "validation" /\ runRet.kind \in AddressKinds

C18_Witness ==
    /\ RunReturned
    /\ env.TARGET_ADDRESS = <<>>
    /\ env.INTERVAL = <<"-", "1", "s">>
    /\ env.DIAL_TIMEOUT = <<>>
    /\ runRet.kind = "address required"

\* C19: an address that contains "://" fails validation with the schema
\* error, which names the text before the first "://".
C19_SchemaNamed ==
    (pc = "validated"
     /\ \E i \in 1..Len(cfgIn.TargetAddress) :
           OccursAt(cfgIn.TargetAddress, <<":", "/", "/">>, i))
        => /\ runRet.kind = "schema"
           /\ \E i \in 1..Len(cfgIn.TargetAddress) :
                 /\ OccursAt(cfgIn.TargetAddress, <<":", "/", "/">>, i)
                 /\ \A j \in 1..(i - 1) :
                       ~OccursAt(cfgIn.TargetAddress, <<":", "/", "/">>, j)
                 /\ runRet.detail = SubSeq(cfgIn.TargetAddress, 1, i - 1)

C19_Witness ==
    /\ pc = "validated"
    /\ cfgIn.TargetAddress = <<"h", ":", "/", "/", ":">>
    /\ runRet.kind = "schema"
    /\ runRet.detail = <<"h">>

\* C20: a non-empty address without ":" fails validation with the host:port
\* format error.
C20_FormatError ==
    (pc = "validated"
     /\ cfgIn.TargetAddress # <<>>
     /\ \A i \in 1..Len(cfgIn.TargetAddress) : cfgIn.TargetAddress[i] # ":")
        => runRet.kind = "address format"

C20_Witness ==
    /\ pc = "validated"
    /\ cfgIn.TargetAddress = <<"h", ".", "h", "/", "/">>
    /\ cfgIn.Interval < 0
    /\ runRet.kind = "address format"

\* C21: with an address that passes the address rules, validateConfig fails
\* exactly when the interval or the dial timeout is negative; zero is
\* accepted for either and for both.
C21_NegativeDurationsRejected ==
    (pc = "validated" /\ ~BadAddress(cfgIn.TargetAddress))
        => /\ (cfgIn.Interval < 0 \/ cfgIn.DialTimeout < 0)
                  => runRet.kind \in {"negative interval",
                                      "negative dial timeout"}
           /\ (cfgIn.Interval >= 0 /\ cfgIn.DialTimeout >= 0)
                  => runRet = NilError

C21_Witness ==
    /\ pc = "validated"
    /\ ~BadAddress(cfgIn.TargetAddress)
    /\ cfgIn.Interval = 0
    /\ cfgIn.DialTimeout = 0
    /\ runRet = NilError

\* position of the port separator of a host:port address: its last ":"
PortSeparator(addr) ==
    CHOOSE i \in 1..Len(addr) :
        /\ addr[i] = ":"
        /\ \A j \in (i + 1)..Len(addr) : addr[j] # ":"

\* the host portion of a host:port address
HostPortion(addr) == SubSeq(addr, 1, PortSeparator(addr) - 1)

\* s truncated before its first ".", or s if it has none
BeforeFirstDot(s) ==
    IF \E i \in 1..Len(s) : s[i] = "."
    THEN SubSeq(s, 1, (CHOOSE i \in 1..Len(s) :
                          /\ s[i] = "."
                          /\ \A j \in 1..(i - 1) : s[j] # ".") - 1)
    ELSE s

\* C22: with no target name supplied, validateConfig sets the name to the
\* host portion of an address that passes the address rules, truncated
\* before its first ".", and leaves the name empty when an address rule
\* fails.
C22_NameDerivedFromHost ==
    (pc = "validated" /\ cfgIn.TargetName = <<>>)
        => IF BadAddress(cfgIn.TargetAddress)
           THEN cfg.TargetName = <<>>
           ELSE cfg.TargetName
                    = BeforeFirstDot(HostPortion(cfgIn.TargetAddress))

\* C23: for every address that passes the address rules (and durations that
\* are not negative) validateConfig succeeds and the target name, given or
\* derived, is not empty.
C23_NameNeverEmpty ==
    (/\ pc = "validated"
     /\ ~BadAddress(cfgIn.TargetAddress)
     /\ cfgIn.Interval >= 0
     /\ cfgIn.DialTimeout >= 0)
        => runRet = NilError /\ cfg.TargetName # <<>>

\* C24: validateConfig applied to a Config that has passed validation
\* succeeds again and leaves every field as the first call left it.
C24_ValidateIdempotent ==
    [][(pc = "validated" /\ pc' = "revalidated")
          => (cfg' = cfg /\ runRet' = NilError)]_vars

C24_Witness ==
    /\ pc = "revalidated"
    /\ cfgIn.TargetName = <<>>
    /\ cfgIn.TargetAddress = <<"h", ".", "h", ":">>
    /\ cfg.TargetName = <<"h">>
    /\ runRet = NilError

\* C25: when validateConfig returns an error, every field of the Config has
\* the value it had before the call.
C25_FailureLeavesConfig ==
    (pc = "validated" /\ runRet # NilError) => cfg = cfgIn

\* parseConfig has returned a Config without an error
Parsed == pc # "main" /\ runRet.wrap # "configuration"

\* run has passed validateConfig
Validated == Parsed /\ pc # "validate" /\ runRet.wrap # "validation"

\* C26: an optional setting whose lookup returns the empty string (which is
\* also what the lookup of an absent key returns) is not an error and gets its
\* default: interval 2 seconds, dial timeout 1 second, verbose false, and a
\* target name derived from the address.
C26_EmptyMeansDefault ==
    /\ (pc # "main" /\ env.INTERVAL = <<>>)
           => /\ runRet.kind # "invalid INTERVAL"
              /\ Parsed => cfgIn.Interval = 2
    /\ (pc # "main" /\ env.DIAL_TIMEOUT = <<>>)
           => /\ runRet.kind # "invalid DIAL_TIMEOUT"
              /\ Parsed => cfgIn.DialTimeout = 1
    /\ (pc # "main" /\ env.LOG_ADDITIONAL_FIELDS = "")
           => /\ runRet.kind # "invalid LOG_ADDITIONAL_FIELDS"
              /\ Parsed => cfgIn.LogAdditionalFields = FALSE
    /\ (Validated /\ env.TARGET_NAME = <<>>)
           => cfg.TargetName
                  = BeforeFirstDot(HostPortion(env.TARGET_ADDRESS))

C26_Witness ==
    /\ pc = "start"
    /\ env.TARGET_NAME = <<>>
    /\ env.INTERVAL = <<>>
    /\ env.DIAL_TIMEOUT = <<>>
    /\ env.LOG_ADDITIONAL_FIELDS = ""
    /\ cfg = [TargetName |-> <<"h">>,
              TargetAddress |-> <<"h", ".", "x", ":", "1">>,
              Interval |-> 2, DialTimeout |-> 1,
              LogAdditionalFields |-> FALSE]

\* the raw verbosity string is set and does not parse as a boolean
MalformedBool(raw) == raw # "" /\ ~ParseBool(raw).ok

\* run has returned the configuration error of kind k with no Config
ConfigurationError(k) ==
    /\ runRet.wrap = "configuration"
    /\ runRet.kind = k
    /\ cfg = ZeroConfig

\* C27: a raw INTERVAL, DIAL_TIMEOUT or LOG_ADDITIONAL_FIELDS string that is
\* set and does not parse makes parseConfig fail with the error that names
\* the setting and return the zero Config; INTERVAL is checked first, then
\* DIAL_TIMEOUT, then LOG_ADDITIONAL_FIELDS.
C27_MalformedSettingFails ==
    pc # "main"
        => IF Malformed(env.INTERVAL)
           THEN ConfigurationError("invalid INTERVAL")
           ELSE IF Malformed(env.DIAL_TIMEOUT)
           THEN ConfigurationError("invalid DIAL_TIMEOUT")
           ELSE IF MalformedBool(env.LOG_ADDITIONAL_FIELDS)
           THEN ConfigurationError("invalid LOG_ADDITIONAL_FIELDS")
           ELSE runRet.wrap # "configuration"

C27_Witness ==
    /\ pc = "returned"
    /\ env.TARGET_ADDRESS = <<"h", ".", "x", ":", "1">>
    /\ env.INTERVAL = <<"0", "s">>
    /\ env.DIAL_TIMEOUT = <<"x">>
    /\ env.LOG_ADDITIONAL_FIELDS = "tr"
    /\ ConfigurationError("invalid DIAL_TIMEOUT")

\* C29: no step of waitForTarget changes a field of the Config, so every
\* dial attempt reads the same address and the same dial timeout from it.
C29_ConfigReadOnly ==
    [][cfg' = cfg]_vars

C29_Witness ==
    /\ pc = "done"
    /\ attempts = MaxAttempts
    /\ NumFailures = MaxAttempts - 1
    /\ ret = "nil"
    /\ cfg = cfgIn

SettingsKeys == {"target_address", "interval", "dial_timeout", "version"}

\* C30: with LogAdditionalFields set every record written carries the
\* settings (target address, interval, dial timeout, version) and every
\* failure record carries the error of its dial; without it no record
\* carries a settings attribute or an error attribute.
C30_FieldsIffVerbose ==
    \A i \in 1..Len(events) :
        IF cfg.LogAdditionalFields
        THEN /\ SettingsKeys \subseteq DOMAIN Output[i].attrs
             /\ Output[i].attrs.target_address = cfg.TargetAddress
             /\ ParseDuration(Output[i].attrs.interval).d = cfg.Interval
             /\ ParseDuration(Output[i].attrs.dial_timeout).d
                    = cfg.DialTimeout
             /\ Output[i].attrs.version = "0.0.24"
             /\ IF IsFailure(events[i])
                   THEN /\ "error" \in DOMAIN Output[i].attrs
                        /\ Output[i].attrs.error = results[i - 1]
                   ELSE "error" \notin DOMAIN Output[i].attrs
        ELSE DOMAIN Output[i].attrs = {}

C30_Witness ==
    /\ pc = "exited"
    /\ cfg.LogAdditionalFields
    /\ Len(events) = 3
    /\ IsFailure(events[2])
    /\ IsSuccess(events[3])
    /\ DOMAIN Output[2].attrs = SettingsKeys \cup {"error"}
    /\ DOMAIN Output[3].attrs = SettingsKeys

\* the number of records with message m that goroutine i handed to the logger
CountBy(B, i, m) ==
    BagCardinality([ev \in {x \in BagToSet(B) : x.by = i /\ x.msg = m}
                       |-> CopiesIn(ev, B)])

\* C28: concurrent calls of waitForTarget, each with its own copy of the
\* Config, that share one context and one logger are independent: a step
\* other than the cancellation of the shared context changes the locals of at
\* most one call; every call returns no error; and against a listening target
\* with the context not cancelled every call logs its own success record and
\* no failure record.
C28_ConcurrentCallsIndependent ==
    /\ [][ctxErr' = ctxErr
             => Cardinality({i \in Routines : routines'[i] # routines[i]})
                    <= 1]_vars
    /\ [](\A i \in Routines :
             routines[i].pc = "done" => routines[i].ret = "nil")
    /\ []((/\ listening
           /\ ctxErr = "none"
           /\ \A i \in Routines : routines[i].pc = "done")
             => \A i \in Routines :
                   /\ CountBy(events, i, "ready") = 1
                   /\ CountBy(events, i, "not ready") = 0
                   /\ routines[i].attempts = 1)

C28_Witness ==
    /\ listening
    /\ ctxErr = "none"
    /\ \A i \in Routines : routines[i].pc = "done" /\ routines[i].ret = "nil"
    /\ BagCardinality(events) = 2 * NumRoutines
    /\ \A i \in Routines : CountBy(events, i, "ready") = 1

\* every dial failed at the instant it started and every wait took the
\* interval: the k-th failure record was written at (k - 1) * Interval
FailedAtOnce ==
    \A i \in 1..Len(events) :
        IsFailure(events[i])
            => events[i].time = (CountEvents(SubSeq(events, 1, i),
                                             "not ready") - 1) * cfg.Interval

\* C31: with a target that never accepts, dials that fail at once and the
\* explicit cancellation fired at time T, waitForTarget has logged at least
\* T div Interval failure records and no success record when it returns, and
\* it returns nil.
C31_FailuresUntilCancel ==
    (/\ pc = "done"
     /\ ctxErr = "canceled"
     /\ cfg.Interval > 0
     /\ NoDialSucceeded
     /\ FailedAtOnce)
        => /\ NumFailures >= firedAt.now \div cfg.Interval
           /\ NumSuccesses = 0
           /\ ret = "nil"

C31_Witness ==
    /\ pc = "done"
    /\ ctxErr = "canceled"
    /\ cfg.Interval = 1
    /\ NoDialSucceeded
    /\ FailedAtOnce
    /\ firedAt.now = 2
    /\ firedAt.pc = "blocked"
    /\ NumFailures = 3
    /\ ret = "nil"

\* C32: a dial attempt in progress has not lasted longer than DialTimeout,
\* for every DialTimeout from zero on: at DialTimeout after its start it is
\* ended.
C32_DialBounded ==
    pc = "dialing" => now <= dialStart + cfg.DialTimeout

\* C36: waitForTarget has made at least one dial attempt when it returns,
\* and when it returns without a success it has logged at least one failure
\* record, also when the context was done before its first statement.
C36_AtLeastOneAttempt ==
    pc = "done"
        => /\ attempts >= 1
           /\ NumSuccesses = 0 => NumFailures >= 1

C36_Witness ==
    /\ pc = "done"
    /\ firedAt.pc = "start"
    /\ ctxErr = "canceled"
    /\ attempts = 1
    /\ NumFailures = 1
    /\ ret = "nil"

\* C37: at most one connection is open at any time, it is open only between
\* the successful return of DialContext and the deferred Close, so none is
\* open after a failed or aborted dial, during the wait, or when
\* waitForTarget has returned.
C37_NoConnectionLeak ==
    /\ conns \in {0, 1}
    /\ conns = 1 => (pc = "close" /\ results[Len(results)] = "ok")
    /\ pc = "done" => conns = 0

C37_Witness ==
    /\ pc = "done"
    /\ attempts = 2
    /\ results = <<"refused", "ok">>
    /\ NumSuccesses = 1
    /\ conns = 0

\* C38: validateConfig leaves a target name that was given as it is, whatever
\* the address, and on success leaves the address, the interval, the dial
\* timeout and the verbosity flag as they were.
C38_GivenNameKept ==
    pc = "validated"
        => /\ cfgIn.TargetName # <<>> => cfg.TargetName = cfgIn.TargetName
           /\ runRet = NilError
                 => /\ cfg.TargetAddress = cfgIn.TargetAddress
                    /\ cfg.Interval = cfgIn.Interval
                    /\ cfg.DialTimeout = cfgIn.DialTimeout
                    /\ cfg.LogAdditionalFields = cfgIn.LogAdditionalFields

C38_Witness ==
    /\ pc = "validated"
    /\ cfgIn.TargetName = <<"d", "b">>
    /\ cfgIn.TargetAddress = <<"h", ".", "h", ":">>
    /\ runRet = NilError
    /\ cfg = cfgIn

\* C33 (as stated): once the context is done, waitForTarget returns, under
\* weak fairness of the steps of the loop, for every interval from zero on.
C33_TerminatesOnCancel ==
    (ctxErr # "none") ~> (pc = "done")

\* C33 (amended): once the context is done, waitForTarget returns under weak
\* fairness of the steps of the loop when the interval is positive; with
\* interval zero it returns if, in addition, the select does not pass over
\* the ready case <-ctx.Done() for ever (strong fairness of that case).
C33_TerminatesOnCancelAmended ==
    /\ (ctxErr # "none" /\ cfg.Interval > 0) ~> (pc = "done")
    /\ SF_vars(SelectDone) => ((ctxErr # "none") ~> (pc = "done"))

C33_Witness ==
    /\ pc = "done"
    /\ cfg.Interval = 0
    /\ ctxErr = "canceled"
    /\ firedAt.pc = "select"
    /\ attempts > firedAt.attempts
    /\ ret = "nil"

\* the loop has logged the success record and returned nil
Ready == pc = "done" /\ ret = "nil" /\ NumSuccesses = 1

\* the loop stands at a bound of the model: no attempt left, or a timer
\* that is due after the last clock value
AtBound ==
    \/ pc = "loop" /\ attempts = MaxAttempts
    \/ pc = "blocked" /\ now = MaxTime /\ now < timerAt

\* C34: if from some point on the target accepts every connection and the
\* context is never done, the loop logs the success record and returns nil
\* (within the attempts and the time of the model).
C34_EventualReadiness ==
    (<>[]listening /\ [](ctxErr = "none")) => <>(Ready \/ AtBound)

C34_Witness ==
    /\ Ready
    /\ ctxErr = "none"
    /\ cfg.Interval > 0
    /\ attempts = MaxAttempts
    /\ NumFailures = MaxAttempts - 1

\* the deadline of the context has passed
DeadlinePassed == deadlineAt # NoDeadline /\ now >= deadlineAt

====
